---------------------------- MODULE Spec2Model ----------------------------
(***************************************************************************)
(* A model of src/model.py: the day-by-day simulation of a two-dose        *)
(* vaccination rollout (run), the population ledger (Population), the      *)
(* allocation policy (vaccinate), the milestone set                        *)
(* (get_newly_passed_milestones) and the supply table                      *)
(* (get_vaccine_data / get_vaccines).                                      *)
(*                                                                         *)
(* Calendar dates are triples <<year, month, day>>; an ISO date string     *)
(* 'YYYY-MM-DD' is the same triple, and the order of ISO strings is the    *)
(* lexicographic order of the triples.                                     *)
(***************************************************************************)
EXTENDS Integers, Sequences, FiniteSets, TLC

(***************************************************************************)
(* Bounds of the model.                                                    *)
(***************************************************************************)
\* The population: a scaled-down stand-in for int(68_107_747 * 0.787).
UK_ADULT_POPULATION == 4
\* The loop of run() has no bound of its own; the model stops taking days here.
MaxDay == 90
\* Largest daily first-dose figure of a record.
MaxNew == 2
\* Largest cumulative first-dose figure of a record.
MaxCum == 2
\* The first record lies 0..MaxFirstOffset days after FIRST_VACCINATION_DAY.
MaxFirstOffset == 2
\* The supply table on its own (SpecTable): most daily records after the first.
MaxRecords == 8
\* Direct calls of the ledger (SpecLedger): largest argument, number of calls.
MaxCallArg == 2
MaxCalls == 3

(***************************************************************************)
(* Program constants.                                                      *)
(***************************************************************************)
JAB_GAP_DAYS == 7 * 12
FIRST_VACCINATION_DAY == <<2020, 12, 8>>
\* PROPORTION_IMMUNE = 0.2, as the fraction 1 / PROPORTION_IMMUNE_DEN
PROPORTION_IMMUNE_DEN == 5
\* timedelta(weeks=2)
TWO_WEEKS == 2 * 7

(***************************************************************************)
(* datetime: the proleptic Gregorian calendar.                             *)
(***************************************************************************)
IsLeap(y) ==
    (y % 4 = 0) /\ ((y % 100 # 0) \/ (y % 400 = 0))

DaysInMonth(y, m) ==
    IF m = 2 THEN (IF IsLeap(y) THEN 29 ELSE 28)
    ELSE IF m \in {4, 6, 9, 11} THEN 30 ELSE 31

RECURSIVE DaysBeforeMonth(_, _)
DaysBeforeMonth(y, m) ==
    IF m = 1 THEN 0 ELSE DaysBeforeMonth(y, m - 1) + DaysInMonth(y, m - 1)

\* datetime.toordinal(): days since 0001-01-01, plus one
Ordinal(d) ==
    LET y1 == d[1] - 1
    IN  y1 * 365 + (y1 \div 4) - (y1 \div 100) + (y1 \div 400)
          + DaysBeforeMonth(d[1], d[2]) + d[3]

\* (a - b).days
DaysBetween(a, b) == Ordinal(a) - Ordinal(b)

\* d + timedelta(days=1)
NextDay(d) ==
    IF d[3] < DaysInMonth(d[1], d[2]) THEN <<d[1], d[2], d[3] + 1>>
    ELSE IF d[2] < 12 THEN <<d[1], d[2] + 1, 1>>
    ELSE <<d[1] + 1, 1, 1>>

\* d + timedelta(days=n), n >= 0: month by month
RECURSIVE AddDays(_, _)
AddDays(d, n) ==
    LET left == DaysInMonth(d[1], d[2]) - d[3]
    IN  IF n <= left THEN <<d[1], d[2], d[3] + n>>
        ELSE AddDays(NextDay(<<d[1], d[2], d[3] + left>>), n - left - 1)

\* the order of the ISO strings of two dates
IsoLess(a, b) ==
    \/ a[1] < b[1]
    \/ a[1] = b[1] /\ a[2] < b[2]
    \/ a[1] = b[1] /\ a[2] = b[2] /\ a[3] < b[3]

\* int(a / b): the quotient truncated towards zero
TruncDiv(a, b) ==
    LET q == (IF a < 0 THEN -a ELSE a) \div (IF b < 0 THEN -b ELSE b)
    IN  IF (a < 0) = (b < 0) THEN q ELSE -q

Min(a, b) == IF a <= b THEN a ELSE b

RECURSIVE SumSeq(_)
SumSeq(s) ==
    IF s = <<>> THEN 0 ELSE s[1] + SumSeq(Tail(s))

(***************************************************************************)
(* get_vaccine_data: the supply table built from vaccination_record.data,  *)
(* a sequence of records with the fields date, new                         *)
(* (newPeopleVaccinatedFirstDoseByPublishDate, optional) and cum           *)
(* (cumPeopleVaccinatedFirstDoseByPublishDate).                            *)
(***************************************************************************)
\* record.get('new...') or record['cum...'] : a missing or zero daily figure
\* falls through to the cumulative figure
RecordTotal(record) ==
    IF "new" \in DOMAIN record /\ record.new # 0 THEN record.new ELSE record.cum

\* the dict recorded_days_to_totals: a later record of a date overwrites
RECURSIVE RecordedDaysToTotals(_)
RecordedDaysToTotals(recs) ==
    IF recs = <<>> THEN <<>>
    ELSE LET n    == Len(recs)
             rest == RecordedDaysToTotals(SubSeq(recs, 1, n - 1))
             last == recs[n]
         IN  [k \in (DOMAIN rest) \cup {last.date} |->
                 IF k = last.date THEN RecordTotal(last) ELSE rest[k]]

\* sorted(keys)
RECURSIVE SortedDates(_)
SortedDates(S) ==
    IF S = {} THEN <<>>
    ELSE LET least == CHOOSE a \in S : \A b \in S \ {a} : IsoLess(a, b)
         IN  <<least>> \o SortedDates(S \ {least})

\* days_in_order[-7:]
LastSeven(s) ==
    IF Len(s) <= 7 THEN s ELSE SubSeq(s, Len(s) - 6, Len(s))

\* date_range(start, end, inclusive): the dates start + n days, 0 <= n < range
date_range(start, end, inclusive) ==
    LET range_as_int == DaysBetween(end, start)
        count        == range_as_int + (IF inclusive THEN 1 ELSE 0)
    IN  [n \in 1..count |-> AddDays(start, n - 1)]

SeqRange(s) == {s[k] : k \in DOMAIN s}

\* the exception get_vaccine_data ends in, "none" when it returns
vaccine_data_raises(recs) ==
    IF \E k \in DOMAIN recs :
          /\ ~("new" \in DOMAIN recs[k] /\ recs[k].new # 0)
          /\ "cum" \notin DOMAIN recs[k]
    THEN "KeyError"
    ELSE IF recs = <<>> THEN "IndexError"
    ELSE LET totals == RecordedDaysToTotals(recs)
             first  == SortedDates(DOMAIN totals)[1]
         IN  IF DaysBetween(first, FIRST_VACCINATION_DAY) = 0
             THEN "ZeroDivisionError" ELSE "none"

\* the pair (iso_dates_to_totals, last_7_day_mean) get_vaccine_data returns
get_vaccine_data(recs) ==
    LET recorded_days_to_totals == RecordedDaysToTotals(recs)
        days_in_order == SortedDates(DOMAIN recorded_days_to_totals)
        first_recorded_day == days_in_order[1]
        total_to_first_recorded_day == recorded_days_to_totals[first_recorded_day]
        days_covered == DaysBetween(first_recorded_day, FIRST_VACCINATION_DAY)
        mean_first_period == TruncDiv(total_to_first_recorded_day, days_covered)
        last_7_days == LastSeven(days_in_order)
        last_7_day_values ==
            [k \in DOMAIN last_7_days |-> recorded_days_to_totals[last_7_days[k]]]
        last_7_day_mean == TruncDiv(SumSeq(last_7_day_values), Len(last_7_day_values))
        early == SeqRange(date_range(FIRST_VACCINATION_DAY, first_recorded_day, TRUE))
        later == SeqRange(Tail(days_in_order))
    IN  [iso_dates_to_totals |->
            [k \in early \cup later |->
                IF k \in later THEN recorded_days_to_totals[k]
                ELSE mean_first_period],
         last_7_day_mean |-> last_7_day_mean]

\* dates_to_totals.get(iso_date) or last_7_day_mean : a date without an entry,
\* or with an entry of 0, gets the mean
get_vaccines(vd, day) ==
    IF day \in DOMAIN vd.iso_dates_to_totals /\ vd.iso_dates_to_totals[day] # 0
    THEN vd.iso_dates_to_totals[day]
    ELSE vd.last_7_day_mean


(***************************************************************************)
(* Population: the ledger.  A population is a record of its fields;        *)
(* first_dose_by_day is the Python list, entry k of the list being element *)
(* k + 1 of the sequence.                                                  *)
(***************************************************************************)
\* Population.__init__
NewPopulation(total) ==
    [total             |-> total,
     second_dose_due   |-> 0,
     first_dose_given  |-> 0,
     second_dose_given |-> 0,
     first_dose_by_day |-> <<>>]

first_dose_due(pop) == pop.total - pop.first_dose_given

total_vaccinations(pop) == pop.first_dose_given + pop.second_dose_given

\* update_day with the bound of the lag off by one: day_to_check > 0
update_day_late(pop, day) ==
    LET appended     == Append(pop.first_dose_by_day, 0)
        day_to_check == day - JAB_GAP_DAYS
    IN  [pop EXCEPT
           !.first_dose_by_day = appended,
           !.second_dose_due =
               IF day_to_check > 0 /\ day_to_check < Len(appended)
               THEN @ + appended[day_to_check + 1] ELSE @]

\* update_day: the append comes first; reading an entry the list does not
\* have raises IndexError after it
update_day(pop, day) ==
    LET appended     == Append(pop.first_dose_by_day, 0)
        day_to_check == day - JAB_GAP_DAYS
    IN  [pop EXCEPT
           !.first_dose_by_day = appended,
           !.second_dose_due =
               IF day_to_check >= 0 /\ day_to_check < Len(appended)
               THEN @ + appended[day_to_check + 1] ELSE @]

update_day_raises(pop, day) ==
    IF day - JAB_GAP_DAYS >= Len(pop.first_dose_by_day) + 1
    THEN "IndexError" ELSE "none"

\* list[day]: an index in -len .. len - 1 names an entry, any other raises
ListIndexOk(list, day) == -Len(list) <= day /\ day < Len(list)

ListPos(list, day) == IF day < 0 THEN Len(list) + day + 1 ELSE day + 1

\* give_first_jab: the counter is raised first, then the entry of the day is
\* set; an index outside the list raises IndexError after the counter moved
give_first_jab(pop, day, n) ==
    LET list == pop.first_dose_by_day
    IN  [pop EXCEPT
           !.first_dose_given = @ + n,
           !.first_dose_by_day =
               IF ListIndexOk(list, day)
               THEN [list EXCEPT ![ListPos(list, day)] = n] ELSE list]

give_first_jab_raises(pop, day) ==
    IF ListIndexOk(pop.first_dose_by_day, day) THEN "none" ELSE "IndexError"

\* give_second_jab that leaves the doses due as they were
give_second_jab_keeps_due(pop, n) ==
    [pop EXCEPT !.second_dose_given = @ + n]

give_second_jab(pop, n) ==
    [pop EXCEPT
       !.second_dose_due = @ - n,
       !.second_dose_given = @ + n]

\* all_vaxxed looking at the first doses
all_first_vaxxed(pop) == pop.first_dose_given >= pop.total

\* all_vaxxed asking for more second doses than there are people
all_vaxxed_strict(pop) == pop.second_dose_given > pop.total

all_vaxxed(pop) == pop.second_dose_given >= pop.total

\* int((total - first_dose_given) * 0.2) + first_dose_given
partly_immune(pop) ==
    LET naturally_immune ==
            TruncDiv(pop.total - pop.first_dose_given, PROPORTION_IMMUNE_DEN)
    IN  pop.first_dose_given + naturally_immune

\* the comparison of a proportion with its threshold made strict
as_prop_gt(pop, n, num, den) == n * den > num * pop.total

\* as_prop(n) >= num / den, with n / total an exact fraction
as_prop_ge(pop, n, num, den) == n * den >= num * pop.total

(***************************************************************************)
(* vaccinate as three slips would have it.                                 *)
(***************************************************************************)
\* first doses not capped by first_dose_due
vaccinate_unclamped(day, pop, jabs) ==
    LET second_jabs == Min(pop.second_dose_due, jabs)
        pop1  == IF second_jabs # 0 THEN give_second_jab(pop, second_jabs) ELSE pop
        jabs1 == IF second_jabs # 0 THEN jabs - second_jabs ELSE jabs
        first_jabs == jabs1
        pop2  == IF first_jabs # 0 THEN give_first_jab(pop1, day, first_jabs) ELSE pop1
        jabs2 == IF first_jabs # 0 THEN jabs1 - first_jabs ELSE jabs1
    IN  [population  |-> pop2,
         second_jabs |-> second_jabs,
         first_jabs  |-> first_jabs,
         jabs        |-> jabs2]

\* first doses served before second doses
vaccinate_first_priority(day, pop, jabs) ==
    LET first_jabs == Min(first_dose_due(pop), jabs)
        pop1  == IF first_jabs # 0 THEN give_first_jab(pop, day, first_jabs) ELSE pop
        jabs1 == IF first_jabs # 0 THEN jabs - first_jabs ELSE jabs
        second_jabs == Min(pop1.second_dose_due, jabs1)
        pop2  == IF second_jabs # 0 THEN give_second_jab(pop1, second_jabs) ELSE pop1
        jabs2 == IF second_jabs # 0 THEN jabs1 - second_jabs ELSE jabs1
    IN  [population  |-> pop2,
         second_jabs |-> second_jabs,
         first_jabs  |-> first_jabs,
         jabs        |-> jabs2]

\* the supply not reduced by the second doses given
vaccinate_no_decrement(day, pop, jabs) ==
    LET second_jabs == Min(pop.second_dose_due, jabs)
        pop1  == IF second_jabs # 0 THEN give_second_jab(pop, second_jabs) ELSE pop
        jabs1 == jabs
        first_jabs == Min(first_dose_due(pop1), jabs1)
        pop2  == IF first_jabs # 0 THEN give_first_jab(pop1, day, first_jabs) ELSE pop1
        jabs2 == IF first_jabs # 0 THEN jabs1 - first_jabs ELSE jabs1
    IN  [population  |-> pop2,
         second_jabs |-> second_jabs,
         first_jabs  |-> first_jabs,
         jabs        |-> jabs2]

(***************************************************************************)
(* vaccinate: the allocation policy.  The result holds the population and  *)
(* the locals of the call as they are when it returns.                     *)
(***************************************************************************)
vaccinate(day, pop, jabs) ==
    LET second_jabs == Min(pop.second_dose_due, jabs)
        pop1  == IF second_jabs # 0 THEN give_second_jab(pop, second_jabs) ELSE pop
        jabs1 == IF second_jabs # 0 THEN jabs - second_jabs ELSE jabs
        first_jabs == Min(first_dose_due(pop1), jabs1)
        pop2  == IF first_jabs # 0 THEN give_first_jab(pop1, day, first_jabs) ELSE pop1
        jabs2 == IF first_jabs # 0 THEN jabs1 - first_jabs ELSE jabs1
    IN  [population  |-> pop2,
         second_jabs |-> second_jabs,
         first_jabs  |-> first_jabs,
         jabs        |-> jabs2]

(***************************************************************************)
(* The milestones of run(), in list order; milestone k is its position.    *)
(***************************************************************************)
NumMilestones == 9

Milestones == 1..NumMilestones

condition(k, pop) ==
    CASE k = 1 -> as_prop_ge(pop, pop.first_dose_given, 6, 10)
      [] k = 2 -> as_prop_ge(pop, pop.first_dose_given, 7, 10)
      [] k = 3 -> as_prop_ge(pop, pop.first_dose_given, 8, 10)
      [] k = 4 -> as_prop_ge(pop, pop.first_dose_given, 1, 1)
      [] k = 5 -> as_prop_ge(pop, pop.second_dose_given, 6, 10)
      [] k = 6 -> as_prop_ge(pop, pop.second_dose_given, 7, 10)
      [] k = 7 -> as_prop_ge(pop, pop.second_dose_given, 8, 10)
      [] k = 8 -> as_prop_ge(pop, pop.second_dose_given, 1, 1)
      [] k = 9 -> as_prop_ge(pop, partly_immune(pop), 75, 100)

\* Milestone.check: passed becomes whatever the condition says now
check(k, pop) == condition(k, pop)

\* milestone is milestones[0]
IsFirstMilestone(k) == k = 1

\* milestone is milestones[-1]
IsLastMilestone(k) == k = NumMilestones

\* the loop of get_newly_passed_milestones from milestone k on; day is the
\* local the special case reassigns
RECURSIVE NewlyPassedFrom(_, _, _, _, _)
NewlyPassedFrom(k, pop, day, flags, newly_passed) ==
    IF k > NumMilestones
    THEN [passed |-> flags, newly_passed |-> newly_passed]
    ELSE IF flags[k]
    THEN NewlyPassedFrom(k + 1, pop, day, flags, newly_passed)
    ELSE LET passed == check(k, pop)
             flags1 == [flags EXCEPT ![k] = passed]
             day1   == IF passed /\ IsLastMilestone(k)
                       THEN AddDays(day, TWO_WEEKS) ELSE day
         IN  IF passed
             THEN NewlyPassedFrom(k + 1, pop, day1, flags1,
                                  Append(newly_passed, <<day1, k>>))
             ELSE NewlyPassedFrom(k + 1, pop, day, flags1, newly_passed)

\* the loop without the test of the passed flag
get_newly_passed_milestones_recheck(pop, day, flags) ==
    LET r == NewlyPassedFrom(1, pop, day, [k \in Milestones |-> FALSE], <<>>)
    IN  [passed |-> [k \in Milestones |-> flags[k] \/ r.passed[k]],
         newly_passed |-> r.newly_passed]

get_newly_passed_milestones(pop, day, flags) ==
    NewlyPassedFrom(1, pop, day, flags, <<>>)

(***************************************************************************)
(* The state of a run.                                                     *)
(***************************************************************************)
VARIABLES
    data,              \* vaccination_record.data['data']
    vaccine_data,      \* the lru_cache of get_vaccine_data: <<>> or <<result>>
    population,        \* the Population of run()
    passed,            \* passed[k]: the passed flag of milestone k
    passed_milestones, \* the output log: pairs <<date, milestone>>
    i,                 \* the loop index of the last day taken, -1 before the loop
    day,               \* the date of the last day taken
    pc,                \* "running", "stopped" (after break), "raised"; "calls"
                       \* when the ledger is called directly
    raised,            \* the exception that ended the run or the last call
    vaccines_today,    \* run(): the supply of the last day taken
    pre,               \* the population as vaccinate received it on that day
    second_jabs,       \* vaccinate(): its local after the call
    first_jabs,        \* vaccinate(): its local after the call
    jabs,              \* vaccinate(): its local after the call (the unused supply)
    newly_passed,      \* run(): the milestones passed on the last day taken
    call               \* the last direct call of the ledger, with the
                       \* population it was made on

vars == <<data, vaccine_data, population, passed, passed_milestones, i, day, pc,
          raised, vaccines_today, pre, second_jabs, first_jabs, jabs,
          newly_passed, call>>

(***************************************************************************)
(* The record sets a run is started on.  The first record carries the      *)
(* cumulative figure only; three later records may follow it, one and two  *)
(* days after it and JAB_GAP_DAYS after the first of these.  The sequence  *)
(* is in the order of the published data, newest first.                    *)
(***************************************************************************)
FirstRecords ==
    {[date |-> AddDays(FIRST_VACCINATION_DAY, f), cum |-> c] :
        f \in 0..MaxFirstOffset, c \in 0..MaxCum}

LaterRecords(date) ==
    {[date |-> date, new |-> n, cum |-> MaxCum] : n \in 1..MaxNew}
      \cup {[date |-> date, new |-> 0, cum |-> c] : c \in {0, MaxCum}}

\* no record of the date, or one of them
Slot(date) == {<<>>} \cup {<<r>> : r \in LaterRecords(date)}

RunInputs ==
    {<<>>} \cup
    UNION {
      {s3 \o s2 \o s1 \o <<r>> :
          s1 \in Slot(AddDays(r.date, 1)),
          s2 \in Slot(AddDays(r.date, 2)),
          s3 \in Slot(AddDays(r.date, 1 + JAB_GAP_DAYS))} :
      r \in FirstRecords}

NoCall == [op |-> "none", day |-> 0, n |-> 0, before |-> NewPopulation(0)]

Init ==
    /\ data \in RunInputs
    /\ vaccine_data = <<>>
    /\ population = NewPopulation(UK_ADULT_POPULATION)
    /\ passed = [k \in Milestones |-> FALSE]
    /\ passed_milestones = <<>>
    /\ i = -1
    /\ day = FIRST_VACCINATION_DAY
    /\ pc = "running"
    /\ raised = "none"
    /\ vaccines_today = 0
    /\ pre = population
    /\ second_jabs = 0
    /\ first_jabs = 0
    /\ jabs = 0
    /\ newly_passed = <<>>
    /\ call = NoCall

(***************************************************************************)
(* run(): one iteration of the loop.                                       *)
(***************************************************************************)
\* days_from: the date the generator yields after `d`, the start date first
days_from(start_day, n, d) == IF n = 0 THEN start_day ELSE NextDay(d)

\* the iteration on the same data with the exception swallowed and one dose
\* a day allocated in its place
DayRaisesIgnored ==
    /\ pc = "running"
    /\ i + 1 <= MaxDay
    /\ vaccine_data = <<>>
    /\ vaccine_data_raises(data) # "none"
    /\ LET n    == i + 1
           pop1 == update_day(population, n)
           v    == vaccinate(n, pop1, 1)
       IN  /\ i' = n
           /\ day' = days_from(FIRST_VACCINATION_DAY, n, day)
           /\ vaccines_today' = 1
           /\ pre' = pop1
           /\ population' = v.population
           /\ second_jabs' = v.second_jabs
           /\ first_jabs' = v.first_jabs
           /\ jabs' = v.jabs
    /\ UNCHANGED <<data, vaccine_data, passed, passed_milestones, newly_passed,
                   raised, pc, call>>

\* the iteration up to the call of get_vaccines, which raises on this data
DayRaises ==
    /\ pc = "running"
    /\ i + 1 <= MaxDay
    /\ vaccine_data = <<>>
    /\ vaccine_data_raises(data) # "none"
    /\ i' = i + 1
    /\ day' = days_from(FIRST_VACCINATION_DAY, i + 1, day)
    /\ population' = update_day(population, i + 1)
    /\ raised' = vaccine_data_raises(data)
    /\ pc' = "raised"
    /\ UNCHANGED <<data, vaccine_data, passed, passed_milestones, vaccines_today,
                   pre, second_jabs, first_jabs, jabs, newly_passed, call>>

\* an iteration that looks at the milestones before the doses of the day are
\* given
IterationStale(banked) ==
    /\ pc = "running"
    /\ i + 1 <= MaxDay
    /\ (vaccine_data = <<>>) => (vaccine_data_raises(data) = "none")
    /\ LET n     == i + 1
           today == days_from(FIRST_VACCINATION_DAY, n, day)
           pop1  == update_day(population, n)
           vd    == IF vaccine_data = <<>> THEN get_vaccine_data(data)
                    ELSE vaccine_data[1]
           supply == get_vaccines(vd, today)
           v     == vaccinate(n, pop1, supply + banked)
           m     == get_newly_passed_milestones(pop1, today, passed)
       IN  /\ i' = n
           /\ day' = today
           /\ vaccine_data' = <<vd>>
           /\ vaccines_today' = supply
           /\ pre' = pop1
           /\ population' = v.population
           /\ second_jabs' = v.second_jabs
           /\ first_jabs' = v.first_jabs
           /\ jabs' = v.jabs
           /\ passed' = m.passed
           /\ newly_passed' = m.newly_passed
           /\ passed_milestones' = passed_milestones \o m.newly_passed
           /\ pc' = IF all_vaxxed(v.population) THEN "stopped" ELSE "running"
    /\ UNCHANGED <<data, raised, call>>

\* a whole iteration: update_day, get_vaccines, vaccinate, the milestones, and
\* the break when everybody has had the second dose; `banked` is what the
\* supply of the day is raised by, nothing in run()
Iteration(banked) ==
    /\ pc = "running"
    /\ i + 1 <= MaxDay
    /\ (vaccine_data = <<>>) => (vaccine_data_raises(data) = "none")
    /\ LET n     == i + 1
           today == days_from(FIRST_VACCINATION_DAY, n, day)
           pop1  == update_day(population, n)
           vd    == IF vaccine_data = <<>> THEN get_vaccine_data(data)
                    ELSE vaccine_data[1]
           supply == get_vaccines(vd, today)
           v     == vaccinate(n, pop1, supply + banked)
           m     == get_newly_passed_milestones(v.population, today, passed)
       IN  /\ i' = n
           /\ day' = today
           /\ vaccine_data' = <<vd>>
           /\ vaccines_today' = supply
           /\ pre' = pop1
           /\ population' = v.population
           /\ second_jabs' = v.second_jabs
           /\ first_jabs' = v.first_jabs
           /\ jabs' = v.jabs
           /\ passed' = m.passed
           /\ newly_passed' = m.newly_passed
           /\ passed_milestones' = passed_milestones \o m.newly_passed
           /\ pc' = IF all_vaxxed(v.population) THEN "stopped" ELSE "running"
    /\ UNCHANGED <<data, raised, call>>

\* a day that adds the supply the day before left unused
DayBanking == Iteration(jabs)

Day == Iteration(0)

Next == Day \/ DayRaises

Spec == Init /\ [][Next]_vars

\* the for statement of run() takes the next day from days_from, which never
\* ends: every step of Next is such a step
LoopAdvances ==
    /\ pc = "running"
    /\ i + 1 <= MaxDay
    /\ i' = i + 1

\* run() is a plain loop in one thread with nothing it waits for, so an
\* iteration that can be taken is taken
SpecFair == Spec /\ WF_i(LoopAdvances)

(***************************************************************************)
(* The ledger called directly: any caller may call update_day,             *)
(* give_first_jab and give_second_jab of a Population with any arguments.  *)
(* A call that raises leaves the object as it is at the raise.             *)
(***************************************************************************)
CallArgs == -1..MaxCallArg

InitLedger ==
    /\ data = <<>>
    /\ vaccine_data = <<>>
    /\ population = NewPopulation(UK_ADULT_POPULATION)
    /\ passed = [k \in Milestones |-> FALSE]
    /\ passed_milestones = <<>>
    /\ i = 0
    /\ day = FIRST_VACCINATION_DAY
    /\ pc = "calls"
    /\ raised = "none"
    /\ vaccines_today = 0
    /\ pre = population
    /\ second_jabs = 0
    /\ first_jabs = 0
    /\ jabs = 0
    /\ newly_passed = <<>>
    /\ call = NoCall

\* i counts the calls made
CallFrame ==
    /\ pc = "calls"
    /\ i < MaxCalls
    /\ i' = i + 1
    /\ UNCHANGED <<data, vaccine_data, passed, passed_milestones, day, pc,
                   vaccines_today, pre, second_jabs, first_jabs, jabs, newly_passed>>

CallUpdateDay ==
    /\ CallFrame
    /\ \E d \in 0..MaxCallArg :
          /\ call' = [op |-> "update_day", day |-> d, n |-> 0, before |-> population]
          /\ population' = update_day(population, d)
          /\ raised' = update_day_raises(population, d)

CallGiveFirstJab ==
    /\ CallFrame
    /\ \E d \in CallArgs, n \in CallArgs :
          /\ call' = [op |-> "give_first_jab", day |-> d, n |-> n, before |-> population]
          /\ population' = give_first_jab(population, d, n)
          /\ raised' = give_first_jab_raises(population, d)

CallGiveSecondJab ==
    /\ CallFrame
    /\ \E n \in CallArgs :
          /\ call' = [op |-> "give_second_jab", day |-> 0, n |-> n, before |-> population]
          /\ population' = give_second_jab(population, n)
          /\ raised' = "none"

NextLedger == CallUpdateDay \/ CallGiveFirstJab \/ CallGiveSecondJab

SpecLedger == InitLedger /\ [][NextLedger]_vars

(***************************************************************************)
(* The supply table on its own: get_vaccines called for any date, on a     *)
(* first record followed by up to MaxRecords daily records on the days     *)
(* after it, with or without one day left out after the first of them.     *)
(* All daily records but the newest are alike.                             *)
(***************************************************************************)
\* the daily records of a run of n: record k lies k days after the first
\* record, `gap` days more from the second on
DailyRun(first_date, n, gap, older, newest) ==
    [k \in 1..n |->
        [(IF k = n THEN newest ELSE older) EXCEPT
            !.date = AddDays(first_date, k + (IF k > 1 THEN gap ELSE 0))]]

\* sequence s back to front: the published data is newest first
Reverse(s) == [k \in 1..Len(s) |-> s[Len(s) + 1 - k]]

TableInputs ==
    {<<>>} \cup
    UNION {
      {Reverse(<<r>> \o DailyRun(r.date, n, gap, older, newest)) :
          n \in 0..MaxRecords,
          gap \in 0..1,
          older \in LaterRecords(r.date),
          newest \in LaterRecords(r.date)} :
      r \in FirstRecords}

\* the dates get_vaccines is asked for: from the start date to past the records
QueryDates ==
    {AddDays(FIRST_VACCINATION_DAY, k) : k \in 0..(MaxFirstOffset + MaxRecords + 3)}

InitTable ==
    /\ data \in TableInputs
    /\ vaccine_data = <<>>
    /\ population = NewPopulation(UK_ADULT_POPULATION)
    /\ passed = [k \in Milestones |-> FALSE]
    /\ passed_milestones = <<>>
    /\ i = -1
    /\ day = FIRST_VACCINATION_DAY
    /\ pc = "table"
    /\ raised = "none"
    /\ vaccines_today = 0
    /\ pre = population
    /\ second_jabs = 0
    /\ first_jabs = 0
    /\ jabs = 0
    /\ newly_passed = <<>>
    /\ call = NoCall

TableFrame ==
    /\ pc = "table"
    /\ UNCHANGED <<data, population, passed, passed_milestones, i, pc, pre,
                   second_jabs, first_jabs, jabs, newly_passed>>

\* get_vaccines(d): the first call builds the table, later ones use the cache
GetVaccines ==
    /\ TableFrame
    /\ (vaccine_data = <<>>) => (vaccine_data_raises(data) = "none")
    /\ \E d \in QueryDates :
          LET vd == IF vaccine_data = <<>> THEN get_vaccine_data(data)
                    ELSE vaccine_data[1]
          IN  /\ vaccine_data' = <<vd>>
              /\ day' = d
              /\ vaccines_today' = get_vaccines(vd, d)
              /\ raised' = "none"
              /\ call' = [NoCall EXCEPT !.op = "get_vaccines"]

\* get_vaccines(d) on data get_vaccine_data raises on: nothing is cached
GetVaccinesRaises ==
    /\ TableFrame
    /\ vaccine_data = <<>>
    /\ vaccine_data_raises(data) # "none"
    /\ \E d \in QueryDates :
          /\ day' = d
          /\ raised' = vaccine_data_raises(data)
          /\ call' = [NoCall EXCEPT !.op = "get_vaccines"]
          /\ UNCHANGED <<vaccine_data, vaccines_today>>

NextTable == GetVaccines \/ GetVaccinesRaises

SpecTable == InitTable /\ [][NextTable]_vars

(***************************************************************************)
(* Properties of a run.  After a whole iteration the state is the end of   *)
(* day i: pre is the ledger as vaccinate received it (after update_day)    *)
(* and population the ledger after the allocation.                         *)
(***************************************************************************)
DayTaken == i >= 0 /\ pc \in {"running", "stopped"}

\* the second and the first doses the ledger gained on day i
SecondToday == population.second_dose_given - pre.second_dose_given

FirstToday == population.first_dose_given - pre.first_dose_given

\* C1: at the end of every simulated day second_dose_given <= first_dose_given
\* <= total, so first_dose_due is never negative, and total_vaccinations is at
\* most 2 * total.
C1_LedgerBounds ==
    pc \in {"running", "stopped"} =>
        /\ population.second_dose_given <= population.first_dose_given
        /\ population.first_dose_given <= population.total
        /\ first_dose_due(population) >= 0
        /\ total_vaccinations(population) <= 2 * population.total

\* a day at whose end everybody has had the first dose and some, not all, the
\* second
C1_Witness ==
    /\ DayTaken
    /\ population.first_dose_given = population.total
    /\ 0 < population.second_dose_given
    /\ population.second_dose_given < population.first_dose_given

\* C2: second doses have strict priority: the second doses given on a day are
\* min(second_dose_due, jabs) as they are before the allocation, and a first
\* dose is given on a day only if no second dose is due after the second doses
\* of that day.
C2_SecondDosePriority ==
    DayTaken =>
        /\ SecondToday = Min(pre.second_dose_due, vaccines_today)
        /\ FirstToday > 0 => population.second_dose_due = 0

\* a day on which more second doses are due than there is supply, while first
\* doses are due too: the supply all goes to second doses
C2_Witness ==
    /\ DayTaken
    /\ 0 < vaccines_today
    /\ vaccines_today < pre.second_dose_due
    /\ first_dose_due(pre) > 0
    /\ SecondToday = vaccines_today
    /\ FirstToday = 0

\* C3: dose conservation: the doses vaccinate allocates on a day are the second
\* doses plus the first doses given that day, neither is negative, and their sum
\* is at most the supply of the day.
C3_DoseConservation ==
    DayTaken =>
        /\ SecondToday >= 0
        /\ FirstToday >= 0
        /\ second_jabs = SecondToday
        /\ first_jabs = FirstToday
        /\ vaccines_today - jabs = SecondToday + FirstToday
        /\ SecondToday + FirstToday <= vaccines_today

\* a day on which both second and first doses are given
C3_Witness ==
    /\ DayTaken
    /\ SecondToday > 0
    /\ FirstToday > 0

\* C4: unused supply is discarded: the doses given on a day are the smaller of
\* that day's supply and that day's dues, whatever earlier days left unused; a
\* supply above the dues gives exactly the dues and the rest is left over.
C4_SurplusDiscarded ==
    DayTaken =>
        LET dues == pre.second_dose_due + first_dose_due(pre)
        IN  /\ SecondToday + FirstToday = Min(vaccines_today, dues)
            /\ vaccines_today > dues =>
                  /\ SecondToday = pre.second_dose_due
                  /\ FirstToday = first_dose_due(pre)
                  /\ jabs = vaccines_today - dues

\* the scenario: no first dose due, a supply above the second doses due, the
\* second doses due are given, the rest is left over, and the run goes on
C4_Witness ==
    /\ DayTaken
    /\ pc = "running"
    /\ first_dose_due(pre) = 0
    /\ pre.second_dose_due > 0
    /\ vaccines_today > pre.second_dose_due
    /\ SecondToday = pre.second_dose_due
    /\ FirstToday = 0
    /\ jabs > 0

\* C5: the first doses of day d become due on day d + 84 and on no other day:
\* update_day of day n raises second_dose_due by the entry of day n - 84 (by
\* nothing before day 84), the entry of a day is the first doses given on it,
\* and before day 84 no second dose is due or given.
C5_EligibilityLag ==
    [][(i' = i + 1 /\ pc' \in {"running", "stopped"}) =>
          /\ pre'.second_dose_due = population.second_dose_due +
                (IF i' >= 84 THEN population.first_dose_by_day[i' - 84 + 1] ELSE 0)
          /\ Len(population'.first_dose_by_day) = i' + 1
          /\ population'.first_dose_by_day[i' + 1] =
                population'.first_dose_given - population.first_dose_given
          /\ \A d \in 1..i' :
                population'.first_dose_by_day[d] = population.first_dose_by_day[d]
          /\ i' < 84 => /\ population'.second_dose_due = 0
                        /\ population'.second_dose_given = 0]_vars

\* day 84: the first doses of day 0 are due, and second doses are given
C5_Witness ==
    /\ DayTaken
    /\ i = 84
    /\ population.first_dose_by_day[1] > 0
    /\ pre.second_dose_due = population.first_dose_by_day[1]
    /\ SecondToday > 0

\* C6: once the passed flag of a milestone is true it stays true, and no
\* milestone is in the output log twice.
C6_MilestoneMonotone ==
    [][/\ \A k \in Milestones : passed[k] => passed'[k]
       /\ \A a, b \in DOMAIN passed_milestones' :
             a # b => passed_milestones'[a][2] # passed_milestones'[b][2]]_vars

\* a day on which a milestone passes while another one passed on a day before
C6_Witness ==
    /\ DayTaken
    /\ newly_passed # <<>>
    /\ \E k \in Milestones :
          /\ passed[k]
          /\ \A a \in DOMAIN newly_passed : newly_passed[a][2] # k

\* C7: every pair enters the output log on the day its milestone is detected;
\* its date is that day plus 14 days for the last milestone (the herd-immunity
\* proxy) and that day itself for any other, also on the day the last one is
\* detected.
C7_RecordedDate ==
    [][/\ passed_milestones' = passed_milestones \o newly_passed'
       /\ (i' = i + 1 /\ pc' \in {"running", "stopped"}) =>
             \A a \in DOMAIN newly_passed' :
                LET date == newly_passed'[a][1]
                    k    == newly_passed'[a][2]
                IN  /\ ~passed[k] /\ passed'[k]
                    /\ Ordinal(date) = Ordinal(day') + (IF k = 9 THEN 14 ELSE 0)
                    /\ date = (IF k = 9 THEN AddDays(day', 14) ELSE day')]_vars

\* a day on which the last milestone and another one are detected together
C7_Witness ==
    /\ DayTaken
    /\ \E a, b \in DOMAIN newly_passed :
          /\ newly_passed[a][2] = 9
          /\ newly_passed[b][2] # 9
          /\ newly_passed[b][1] = day
          /\ newly_passed[a][1] # day

\* C8: the loop stops at the end of the first day on which second_dose_given >=
\* total: no day is taken after the stop, and a day ends in the stop exactly
\* when second_dose_given >= total at its end.
C8_StopsWhenAllVaxxed ==
    [][/\ pc # "stopped"
       /\ pc' = "stopped" <=>
             population'.second_dose_given >= population'.total]_vars

\* the loop has stopped
C8_Witness ==
    /\ pc = "stopped"
    /\ i >= 84
    /\ population.second_dose_given = population.total

\* C9: a call of give_second_jab(n) with n > second_dose_due or n < 0, or of
\* give_first_jab(day, n) with n > first_dose_due or n < 0, ends in an error and
\* leaves the counters of the ledger as they were.
C9_FailFast ==
    /\ (/\ call.op = "give_second_jab"
        /\ (call.n > call.before.second_dose_due \/ call.n < 0)) =>
          /\ raised # "none"
          /\ population.second_dose_due = call.before.second_dose_due
          /\ population.second_dose_given = call.before.second_dose_given
    /\ (/\ call.op = "give_first_jab"
        /\ (call.n > first_dose_due(call.before) \/ call.n < 0)) =>
          /\ raised # "none"
          /\ population.first_dose_given = call.before.first_dose_given

\* the records of `recs` after the earliest one
LaterRecordsOf(recs) ==
    {r \in SeqRange(recs) : \E q \in SeqRange(recs) : IsoLess(q.date, r.date)}

\* C10: on every recorded date but the first, get_vaccines returns the daily
\* first-dose figure of the record unchanged, whatever non-negative value it is.
C10_RecordedValueAsIs ==
    DayTaken =>
        \A r \in LaterRecordsOf(data) :
            (r.date = day /\ "new" \in DOMAIN r) => vaccines_today = r.new

(***************************************************************************)
(* Properties of the supply table.                                         *)
(***************************************************************************)
\* get_vaccines has been called, and it returned
Returned == call.op = "get_vaccines" /\ raised = "none"

\* the earliest record of `recs`
FirstRecordOf(recs) ==
    CHOOSE r \in SeqRange(recs) : \A q \in SeqRange(recs) : ~IsoLess(q.date, r.date)

RecordDates(recs) == {r.date : r \in SeqRange(recs)}

\* the dates from the start date through the first recorded date
EarlyDates(recs) ==
    {AddDays(FIRST_VACCINATION_DAY, k) :
        k \in 0..DaysBetween(FirstRecordOf(recs).date, FIRST_VACCINATION_DAY)}

\* C11: for a first recorded date on or after the start date the table is built,
\* and its early flat mean is the cumulative figure of the first record divided
\* by the day-count from the start date to the first recorded date (the days
\* between the two, or the days covered, both ends counted).
C11_EarlyMean ==
    (call.op = "get_vaccines" /\ data # <<>>
        /\ ~IsoLess(FirstRecordOf(data).date, FIRST_VACCINATION_DAY)) =>
        /\ raised = "none"
        /\ vaccine_data # <<>>
        /\ LET first == FirstRecordOf(data)
               f     == DaysBetween(first.date, FIRST_VACCINATION_DAY)
               table == vaccine_data[1].iso_dates_to_totals
           IN  \A d \in EarlyDates(data) :
                  /\ d \in DOMAIN table
                  /\ \/ table[d] = TruncDiv(first.cum, f + 1)
                     \/ f > 0 /\ table[d] = TruncDiv(first.cum, f)

\* the daily value a record states: its new-first-doses figure, and for the
\* first record, which has none, its cumulative figure
RecordedValue(record) ==
    IF "new" \in DOMAIN record THEN record.new ELSE record.cum

\* the integer mean of the last 7 recorded daily values, the first record
\* counting as `first_value`
MeanOfLastSeven(recs, first_value) ==
    LET dates  == LastSeven(SortedDates(RecordDates(recs)))
        first  == FirstRecordOf(recs)
        values == [k \in DOMAIN dates |->
                      IF dates[k] = first.date THEN first_value
                      ELSE RecordedValue(CHOOSE r \in SeqRange(recs) : r.date = dates[k])]
    IN  TruncDiv(SumSeq(values), Len(values))

\* C12: for a date with no record after the first recorded date (a gap date or
\* a date past the last record) get_vaccines returns the integer mean of the
\* last 7 recorded daily values, and what it returns is never negative.  The
\* first record's daily value is read either as its cumulative figure or as the
\* early flat mean.
C12_DefaultIsMeanOfLastSeven ==
    Returned =>
        /\ vaccines_today >= 0
        /\ (day \notin RecordDates(data) /\ IsoLess(FirstRecordOf(data).date, day)) =>
              LET first == FirstRecordOf(data)
              IN  \/ vaccines_today = MeanOfLastSeven(data, first.cum)
                  \/ vaccines_today = MeanOfLastSeven(data,
                        TruncDiv(first.cum, DaysBetween(first.date, FIRST_VACCINATION_DAY)))

(***************************************************************************)
(* More properties of a run.                                               *)
(***************************************************************************)
\* C13: with an empty record set the first call of get_vaccines ends in an
\* error raised while the table is built: no table is cached, no supply value
\* is returned, the run is over, and no dose was ever allocated.
C13_EmptyRecordsRaise ==
    (data = <<>> /\ i >= 0) =>
        /\ pc = "raised"
        /\ raised # "none"
        /\ i = 0
        /\ vaccine_data = <<>>
        /\ vaccines_today = 0
        /\ population.first_dose_given = 0
        /\ population.second_dose_given = 0
        /\ SumSeq(population.first_dose_by_day) = 0
        /\ passed_milestones = <<>>

C13_Witness == data = <<>> /\ i = 0 /\ pc = "raised" /\ raised = "IndexError"

\* the milestones recorded on day i
NewlyPassedToday == {newly_passed[k][2] : k \in DOMAIN newly_passed}

\* C14: milestones are evaluated on the ledger as the allocation of the same
\* day left it: at the end of every day a milestone is flagged passed exactly
\* when its predicate holds of the ledger, it is recorded on day i exactly when
\* the predicate holds at the end of day i and did not hold before the doses of
\* day i were given, and a run that stops has evaluated the last day too.
C14_MilestonesAfterAllocation ==
    DayTaken =>
        /\ \A k \in Milestones : passed[k] <=> condition(k, population)
        /\ \A k \in Milestones :
              k \in NewlyPassedToday <=> (condition(k, population) /\ ~condition(k, pre))
        /\ (pc = "stopped") => passed[8]

C14_Witness ==
    /\ DayTaken
    /\ FirstToday + SecondToday > 0
    /\ NewlyPassedToday # {}
    /\ \E k \in NewlyPassedToday : ~condition(k, pre)

\* an iteration that ran to its end with no supply, taken while second doses
\* are still missing
ZeroSupplyDay ==
    /\ i' = i + 1
    /\ pc' # "raised"
    /\ vaccines_today' = 0
    /\ population.second_dose_given < population.total

\* C15: a run whose supply is at least 1 dose on every day it simulates
\* eventually stops, with second_dose_given >= total (a run leaves this case by
\* raising or by a day of supply below 1); and the loop stops for no other
\* reason: a day of no supply while second doses are missing gives no second
\* dose and does not stop the loop.
C15_Termination ==
    /\ <>(\/ pc = "stopped" /\ population.second_dose_given >= population.total
          \/ pc = "raised"
          \/ DayTaken /\ vaccines_today < 1)
    /\ [][ZeroSupplyDay =>
            /\ pc' = "running"
            /\ population'.second_dose_given = population.second_dose_given]_vars
    /\ [](pc = "stopped" => population.second_dose_given >= population.total)

C15_Witness ==
    /\ pc = "stopped"
    /\ population.total > 0
    /\ vaccine_data # <<>>
    /\ vaccine_data[1].last_7_day_mean >= 1
    /\ vaccines_today >= 1

\* the first doses given on the days 0 .. n of the run
FirstDosesThrough(pop, n) ==
    IF n < 0 THEN 0 ELSE SumSeq(SubSeq(pop.first_dose_by_day, 1, n + 1))

\* C16: at the end of every day i second_dose_due is not negative, the second
\* doses given and due together are the first doses given on the days up to
\* i - 84, first_dose_given is the sum of first_dose_by_day, and
\* first_dose_by_day has i + 1 entries.
C16_SecondDoseAccounting ==
    DayTaken =>
        /\ population.second_dose_due >= 0
        /\ Len(population.first_dose_by_day) = i + 1
        /\ population.second_dose_given + population.second_dose_due
              = FirstDosesThrough(population, i - JAB_GAP_DAYS)
        /\ population.first_dose_given = SumSeq(population.first_dose_by_day)

C16_Witness ==
    /\ DayTaken
    /\ i > JAB_GAP_DAYS
    /\ population.second_dose_due > 0
    /\ population.second_dose_given > 0
    /\ FirstDosesThrough(population, i - JAB_GAP_DAYS) < population.first_dose_given

\* the entries of the output log that name milestone k
LogEntriesOf(k) == {j \in DOMAIN passed_milestones : passed_milestones[j][2] = k}

\* C17: when the loop has stopped every one of the nine milestones has passed
\* and is in the output log exactly once, and second_dose_given is total, not
\* more.
C17_StoppedComplete ==
    (pc = "stopped") =>
        /\ \A k \in Milestones : passed[k] /\ Cardinality(LogEntriesOf(k)) = 1
        /\ Len(passed_milestones) = NumMilestones
        /\ population.second_dose_given = population.total

C17_Witness ==
    /\ pc = "stopped"
    /\ Len(passed_milestones) = NumMilestones
    /\ population.second_dose_given = UK_ADULT_POPULATION
    /\ newly_passed # <<>>

\* C18: the output log is in non-decreasing order of recorded date: of any two
\* entries the earlier one in passed_milestones has a recorded date no later
\* than the later one.
C18_LogInDateOrder ==
    \A a, b \in DOMAIN passed_milestones :
        a < b => ~IsoLess(passed_milestones[b][1], passed_milestones[a][1])

(***************************************************************************)
(* The early period of the supply table.                                   *)
(***************************************************************************)
\* the sum of f over the set S
RECURSIVE SumOver(_, _)
SumOver(f, S) ==
    IF S = {} THEN 0
    ELSE LET x == CHOOSE y \in S : TRUE
         IN  f[x] + SumOver(f, S \ {x})

\* C19: the supplies the table assigns to the dates from the start date through
\* the first recorded date, both included, sum to no more than the cumulative
\* figure of the first record.
C19_EarlyPeriodConserves ==
    (Returned /\ vaccine_data # <<>>) =>
        SumOver(vaccine_data[1].iso_dates_to_totals, EarlyDates(data))
            <= FirstRecordOf(data).cum

=============================================================================
